---- MODULE Spec2Model ----
(***************************************************************************)
(* Verification model of the Nimbus web application's request governors:   *)
(*   - the in-memory waitlist rate limiter (apps/web .../join/route.ts),   *)
(*   - the database-backed waitlist rate limiter (checkRateLimitDB),       *)
(*   - the edge middleware (rate limit on /api/waitlist, session gate),    *)
(*   - the waitlist join handler (check-then-insert on the waitlist table),*)
(* and of the Transfer Coordinator and Credential Store contracts that the *)
(* design document specifies.                                              *)
(*                                                                         *)
(* Time is the millisecond clock of Date.now(); the clock advances in      *)
(* steps of a fixed granularity so that the state space stays finite.      *)
(***************************************************************************)
EXTENDS Integers, Sequences, FiniteSets, TLC

VARIABLES
    now,              \* Date.now(), in ms
    rateLimitStore,   \* per server instance: Map<ip, {count, resetTime}>
    memLast,          \* result of the last checkRateLimit call
    memAdmitted,      \* per ip: times of the requests admitted during the last windowMs
    memDeniedUntil,   \* per ip: resetTime of the window in which the ip was last denied
    memWindowAllowed, \* per instance and ip: calls allowed since the record's window was opened
    shadowStore,      \* per instance: the Map as it would be if the cleanup timer never ran
    rateLimitAttempts,\* table rate_limit_attempts: identifier -> row
    dbReq,            \* per in-flight checkRateLimitDB call: position and locals
    dbAdmitted,       \* per identifier: calls that returned allowed in the current window row
    dbLast,           \* result of the last finished checkRateLimitDB call
    tokenCache,       \* the middleware limiter's LRU cache, least recently used first
    mwLast,           \* the last request seen by the edge and what became of it
    waitlist,         \* table waitlist: the email column of its rows, in insertion order
    emailIsUnique,    \* whether the waitlist table rejects a second row with the same email
    joinReq,          \* per in-flight POST /api/waitlist/join: position, locals, response
    xfer,             \* per TransferSession: state and set of acknowledged part indices
    xferLast,         \* the last Transfer Coordinator call: operation, session, state before, result
    xferCompleted,    \* per TransferSession: completeUpload calls that succeeded
    cred,             \* per StorageSource: the credential's expiry flag and epoch
    credLock,         \* per StorageSource: the resolver that holds the refresh lock
    resolver,         \* per resolving caller: position and source
    refreshCalls,     \* per StorageSource: refresh calls made on the Credential Store
    mwPassed          \* per limiter token: start of its interval, requests passed in it,
                      \* and whether its cache entry was evicted during it

vars == <<now, rateLimitStore, memLast, memAdmitted, memDeniedUntil, memWindowAllowed,
          shadowStore, rateLimitAttempts, dbReq, dbAdmitted, dbLast,
          tokenCache, mwLast, mwPassed, waitlist, emailIsUnique, joinReq,
          xfer, xferLast, xferCompleted, cred, credLock, resolver, refreshCalls>>

memVars == <<rateLimitStore, memLast, memAdmitted, memDeniedUntil, memWindowAllowed, shadowStore>>
dbVars  == <<rateLimitAttempts, dbReq, dbAdmitted, dbLast>>
mwVars  == <<tokenCache, mwLast, mwPassed>>
joinVars == <<waitlist, emailIsUnique, joinReq>>
xferVars == <<xfer, xferLast, xferCompleted>>
credVars == <<cred, credLock, resolver, refreshCalls>>
gatewayVars == <<xfer, xferLast, xferCompleted, cred, credLock, resolver, refreshCalls>>
webVars  == <<now, rateLimitStore, memLast, memAdmitted, memDeniedUntil, memWindowAllowed,
              shadowStore, rateLimitAttempts, dbReq, dbAdmitted, dbLast,
              tokenCache, mwLast, mwPassed, waitlist, emailIsUnique, joinReq>>

(***************************************************************************)
(* Bounds of the model                                                     *)
(***************************************************************************)
TickMs     == 30000     \* granularity of the clock
MemMaxTime == 180000    \* the clock of the in-memory specification stops here
DbTickMs   == 90000     \* granularity of the clock of the database specification
DbMaxTime  == 180000    \* the clock of the database specification stops here
RestartMaxTime == 60000 \* the clock of the restart specification stops here
ExpiryTickMs   == 60000 \* granularity of the clock of the expiry specification
ExpiryMaxTime  == 180000 \* the clock of the expiry specification stops here

IPs       == {"ip1", "ip2"}
Clients   == IPs \cup {"anonymous"}   \* the keys a limiter can see
Instances == {"i1", "i2"}
DbProcs   == {"r1", "r2"}

(***************************************************************************)
(* Utilities                                                               *)
(***************************************************************************)
MapSet(m, k, v) == [x \in (DOMAIN m) \cup {k} |-> IF x = k THEN v ELSE m[x]]
MapDelete(m, ks) == [x \in (DOMAIN m) \ ks |-> m[x]]
EmptyMap == [x \in {} |-> 0]

RECURSIVE SeqFilterGE(_, _)
SeqFilterGE(s, lo) ==
    IF s = <<>> THEN <<>>
    ELSE IF Head(s) >= lo THEN <<Head(s)>> \o SeqFilterGE(Tail(s), lo)
         ELSE SeqFilterGE(Tail(s), lo)

CountGE(s, lo) == Cardinality({k \in DOMAIN s : s[k] >= lo})

(***************************************************************************)
(* In-memory rate limiter: route.ts                                        *)
(***************************************************************************)
MemLimit    == 3
MemWindowMs == 60000

\* the mutant admits one request more: count > limit instead of count >= limit
checkRateLimit_offByOne(store, ip, limit, windowMs, t) ==
    IF ip \notin DOMAIN store \/ t > store[ip].resetTime
    THEN [store  |-> MapSet(store, ip, [count |-> 1, resetTime |-> t + windowMs]),
          result |-> [allowed |-> TRUE, remaining |-> limit - 1, resetTime |-> t + windowMs]]
    ELSE IF store[ip].count > limit
    THEN [store  |-> store,
          result |-> [allowed |-> FALSE, remaining |-> 0, resetTime |-> store[ip].resetTime]]
    ELSE [store  |-> MapSet(store, ip, [count |-> store[ip].count + 1, resetTime |-> store[ip].resetTime]),
          result |-> [allowed |-> TRUE, remaining |-> limit - (store[ip].count + 1),
                      resetTime |-> store[ip].resetTime]]

\* checkRateLimit(ip, limit, windowMs) at Date.now() = t on the Map store
checkRateLimit(store, ip, limit, windowMs, t) ==
    IF ip \notin DOMAIN store \/ t > store[ip].resetTime
    THEN [store  |-> MapSet(store, ip, [count |-> 1, resetTime |-> t + windowMs]),
          result |-> [allowed |-> TRUE, remaining |-> limit - 1, resetTime |-> t + windowMs]]
    ELSE IF store[ip].count >= limit
    THEN [store  |-> store,
          result |-> [allowed |-> FALSE, remaining |-> 0, resetTime |-> store[ip].resetTime]]
    ELSE [store  |-> MapSet(store, ip, [count |-> store[ip].count + 1, resetTime |-> store[ip].resetTime]),
          result |-> [allowed |-> TRUE, remaining |-> limit - (store[ip].count + 1),
                      resetTime |-> store[ip].resetTime]]

NoResult == [inst |-> "none", ip |-> "none", allowed |-> FALSE, remaining |-> 0,
             resetTime |-> 0, status |-> 0]

\* the mutant loses record.count++: a call inside an open window leaves the
\* record as it found it
RouteCheck_noIncrement(i, ip) ==
    LET r == checkRateLimit(rateLimitStore[i], ip, MemLimit, MemWindowMs, now) IN
    rateLimitStore' = [rateLimitStore EXCEPT ![i] =
        IF ip \in DOMAIN @ /\ now <= @[ip].resetTime THEN @ ELSE r.store]

\* POST of route.ts up to its first await: the ip's rate-limit check and the
\* 429 answer; an allowed request goes on to parse its body (status 0 here).
RouteCheck(i, ip) ==
    LET r == checkRateLimit(rateLimitStore[i], ip, MemLimit, MemWindowMs, now) IN
    rateLimitStore' = [rateLimitStore EXCEPT ![i] = r.store]

\* the same step, with the observations the properties are stated on
MemRateLimitStep(i, ip) ==
    LET r == checkRateLimit(rateLimitStore[i], ip, MemLimit, MemWindowMs, now) IN
    /\ RouteCheck(i, ip)
    /\ memLast' = [inst |-> i, ip |-> ip, allowed |-> r.result.allowed,
                   remaining |-> r.result.remaining, resetTime |-> r.result.resetTime,
                   status |-> IF r.result.allowed THEN 0 ELSE 429]
    /\ memAdmitted' = IF r.result.allowed
                      THEN [memAdmitted EXCEPT ![ip] = Append(@, now)]
                      ELSE memAdmitted
    /\ memDeniedUntil' = IF r.result.allowed THEN memDeniedUntil
                         ELSE [memDeniedUntil EXCEPT ![ip] = r.result.resetTime]
    /\ memWindowAllowed' =
          IF ~r.result.allowed THEN memWindowAllowed
          ELSE IF ip \notin DOMAIN rateLimitStore[i] \/ now > rateLimitStore[i][ip].resetTime
          THEN [memWindowAllowed EXCEPT ![i][ip] = 1]
          ELSE [memWindowAllowed EXCEPT ![i][ip] = @ + 1]
    /\ shadowStore' = [shadowStore EXCEPT ![i] =
          checkRateLimit(@, ip, MemLimit, MemWindowMs, now).store]

\* the mutant drops a record already at its resetTime: now >= resetTime
Expired_atResetTime(store, t) == {k \in DOMAIN store : t >= store[k].resetTime}

\* the keys the setInterval callback deletes at time t
Expired(store, t) == {k \in DOMAIN store : t > store[k].resetTime}

\* the setInterval callback: expired records are dropped from the Map
Cleanup(i) ==
    /\ rateLimitStore' = [rateLimitStore EXCEPT ![i] = MapDelete(@, Expired(@, now))]
    /\ memWindowAllowed' = [memWindowAllowed EXCEPT ![i] =
            [ip \in Clients |-> IF ip \in Expired(rateLimitStore[i], now) THEN 0 ELSE @[ip]]]
    /\ UNCHANGED <<memLast, memAdmitted, memDeniedUntil, shadowStore>>

MemInit ==
    /\ rateLimitStore = [i \in Instances |-> EmptyMap]
    /\ memLast = NoResult
    /\ memAdmitted = [ip \in Clients |-> <<>>]
    /\ memDeniedUntil = [ip \in Clients |-> 0]
    /\ memWindowAllowed = [i \in Instances |-> [ip \in Clients |-> 0]]
    /\ shadowStore = [i \in Instances |-> EmptyMap]

\* the history of admitted requests keeps the last windowMs only
PruneAdmitted(t) == [ip \in Clients |-> SeqFilterGE(memAdmitted[ip], t - MemWindowMs)]

(***************************************************************************)
(* Database-backed rate limiter: checkRateLimitDB                          *)
(***************************************************************************)
DbLimit    == 3
DbWindowMs == 120000

InstanceOf(p) == IF p = "r1" THEN "i1" ELSE "i2"

DbIdle == [pc |-> "idle", ip |-> "none", now |-> 0, found |-> FALSE,
           count |-> 0, expiresAt |-> 0]

NoDbResult == [ip |-> "none", allowed |-> FALSE, remaining |-> 0, resetTime |-> 0,
               reopened |-> FALSE]

\* observation: the last finished call denied the identifier of request r in
\* the very window (row) that request r has selected
DeniedInWindow(last, r) ==
    r.found /\ last.ip = r.ip /\ ~last.allowed /\ last.resetTime = r.expiresAt

\* const now = new Date(): the call is entered and its clock value taken
DbBegin(p, ip) ==
    /\ dbReq[p].pc = "idle"
    /\ dbReq' = [dbReq EXCEPT ![p] = [DbIdle EXCEPT !.pc = "select", !.ip = ip, !.now = now]]
    /\ UNCHANGED <<rateLimitAttempts, dbAdmitted, dbLast>>

\* await db.select().from(rateLimitAttempts).where(identifier = ip).limit(1)
DbSelect(p) ==
    /\ dbReq[p].pc = "select"
    /\ LET ip == dbReq[p].ip IN
       dbReq' = [dbReq EXCEPT ![p] =
                    IF ip \in DOMAIN rateLimitAttempts
                    THEN [@ EXCEPT !.pc = "decide", !.found = TRUE,
                                   !.count = rateLimitAttempts[ip].count,
                                   !.expiresAt = rateLimitAttempts[ip].expiresAt]
                    ELSE [@ EXCEPT !.pc = "decide", !.found = FALSE]]
    /\ UNCHANGED <<rateLimitAttempts, dbAdmitted, dbLast>>

\* the mutant opens a new window already at the expiry: expiresAt <= now
DbWriteKind_renewsAtExpiry(r) ==
    IF ~r.found \/ r.expiresAt <= r.now THEN "upsert"
    ELSE IF r.count >= DbLimit THEN "deny"
    ELSE "increment"

\* the statement sent after the select, decided on the selected row alone
DbWriteKind(r) ==
    IF ~r.found \/ r.expiresAt < r.now THEN "upsert"
    ELSE IF r.count >= DbLimit THEN "deny"
    ELSE "increment"

\* the rest of checkRateLimitDB: upsert of a new window, denial, or increment
DbDecide(p) ==
    /\ dbReq[p].pc = "decide"
    /\ LET r  == dbReq[p]
           ip == r.ip
           kind == DbWriteKind(r)
           newExpiry == r.now + DbWindowMs
       IN
       /\ rateLimitAttempts' =
             CASE kind = "upsert" ->
                    MapSet(rateLimitAttempts, ip, [count |-> 1, expiresAt |-> newExpiry])
               [] kind = "increment" ->
                    IF ip \in DOMAIN rateLimitAttempts
                    THEN MapSet(rateLimitAttempts, ip,
                                [count |-> rateLimitAttempts[ip].count + 1,
                                 expiresAt |-> rateLimitAttempts[ip].expiresAt])
                    ELSE rateLimitAttempts
               [] OTHER -> rateLimitAttempts
       /\ dbLast' =
             CASE kind = "upsert" ->
                    [ip |-> ip, allowed |-> TRUE, remaining |-> DbLimit - 1, resetTime |-> newExpiry,
                     reopened |-> DeniedInWindow(dbLast, r)]
               [] kind = "increment" ->
                    [ip |-> ip, allowed |-> TRUE, remaining |-> DbLimit - (r.count + 1),
                     resetTime |-> r.expiresAt, reopened |-> FALSE]
               [] OTHER ->
                    [ip |-> ip, allowed |-> FALSE, remaining |-> 0, resetTime |-> r.expiresAt,
                     reopened |-> FALSE]
       /\ dbAdmitted' =
             CASE kind = "upsert" -> [dbAdmitted EXCEPT ![ip] = 1]
               [] kind = "increment" ->
                    IF ip \in DOMAIN rateLimitAttempts /\ now <= rateLimitAttempts[ip].expiresAt
                    THEN [dbAdmitted EXCEPT ![ip] = @ + 1]
                    ELSE dbAdmitted
               [] OTHER -> dbAdmitted
    /\ dbReq' = [dbReq EXCEPT ![p] = DbIdle]

DbInit ==
    /\ rateLimitAttempts = EmptyMap
    /\ dbReq = [p \in DbProcs |-> DbIdle]
    /\ dbAdmitted = [ip \in Clients |-> 0]
    /\ dbLast = NoDbResult

\* what one checkRateLimitDB call, run alone at time t, answers on a table
DbDecision(table, ip, t) ==
    LET r == IF ip \in DOMAIN table
             THEN [DbIdle EXCEPT !.now = t, !.found = TRUE, !.count = table[ip].count,
                                 !.expiresAt = table[ip].expiresAt]
             ELSE [DbIdle EXCEPT !.now = t]
        kind == DbWriteKind(r)
    IN CASE kind = "upsert" -> [allowed |-> TRUE, remaining |-> DbLimit - 1,
                                resetTime |-> t + DbWindowMs]
         [] kind = "increment" -> [allowed |-> TRUE, remaining |-> DbLimit - (r.count + 1),
                                   resetTime |-> r.expiresAt]
         [] OTHER -> [allowed |-> FALSE, remaining |-> 0, resetTime |-> r.expiresAt]

\* A server process is started anew: the module is loaded again, so
\* rateLimitStore is a new, empty Map, and the calls it was serving are gone.
\* The table rate_limit_attempts lives in the database and stays.
\* the mutant keeps the Map over the restart
Restart_keepsStore(i) ==
    /\ rateLimitStore' = rateLimitStore
    /\ dbReq' = [p \in DbProcs |-> IF InstanceOf(p) = i THEN DbIdle ELSE dbReq[p]]
    /\ UNCHANGED <<memLast, memAdmitted, memDeniedUntil, memWindowAllowed, shadowStore,
                   rateLimitAttempts, dbAdmitted, dbLast>>

Restart(i) ==
    /\ rateLimitStore' = [rateLimitStore EXCEPT ![i] = EmptyMap]
    /\ shadowStore' = [shadowStore EXCEPT ![i] = EmptyMap]
    /\ memWindowAllowed' = [memWindowAllowed EXCEPT ![i] = [ip \in Clients |-> 0]]
    /\ dbReq' = [p \in DbProcs |-> IF InstanceOf(p) = i THEN DbIdle ELSE dbReq[p]]
    /\ UNCHANGED <<memLast, memAdmitted, memDeniedUntil,
                   rateLimitAttempts, dbAdmitted, dbLast>>

(***************************************************************************)
(* Edge middleware: middleware.ts                                          *)
(***************************************************************************)
StartsWith(s, pre) == Len(s) >= Len(pre) /\ SubSeq(s, 1, Len(pre)) = pre

PathApp         == <<"/", "a", "p", "p">>
PathAppFiles    == <<"/", "a", "p", "p", "/", "f">>
PathRoot        == <<"/">>
PathApiWaitlist == <<"/", "a", "p", "i", "/", "w", "a", "i", "t", "l", "i", "s", "t">>
PathJoin        == PathApiWaitlist \o <<"/", "j", "o", "i", "n">>

Paths == {PathApp, PathAppFiles, PathRoot, PathApiWaitlist, PathJoin}

\* config.matcher: "/app" names that one path, "/api/waitlist/:path*" names
\* /api/waitlist and every path below it
MatchesExact(path, pattern) == path = pattern
MatchesPathStar(path, prefix) == path = prefix \/ StartsWith(path, prefix \o <<"/">>)

matcher(path) == MatchesExact(path, PathApp) \/ MatchesPathStar(path, PathApiWaitlist)

Interval               == 300000   \* 60 * 5000
MwLimit                == 5
UniqueTokenPerInterval == 1        \* capacity of the limiter's cache, scaled down from 500
MaxUsage               == 6        \* a token is not used more often than this in one entry
MaxPassed              == 6        \* nor passed more often than this in one interval

\* a || b || c of JavaScript on header values, "" being an absent one
OrElse(a, b) == IF a # "" THEN a ELSE b

RECURSIVE CacheIndex(_, _)
CacheIndex(cache, token) ==
    IF cache = <<>> THEN 0
    ELSE IF cache[Len(cache)].token = token THEN Len(cache)
    ELSE CacheIndex(SubSeq(cache, 1, Len(cache) - 1), token)

RemoveAt(s, k) == SubSeq(s, 1, k - 1) \o SubSeq(s, k + 1, Len(s))

IsStale(e, t) == t - e.start > Interval

\* the mutant lets one request more through: count > limit + 1
LimiterCheck_offByOne(cache, limit, token, t) ==
    LET k     == CacheIndex(cache, token)
        hit   == k > 0 /\ ~IsStale(cache[k], t)
        rest  == IF k > 0 THEN RemoveAt(cache, k) ELSE cache
        entry == IF hit THEN [cache[k] EXCEPT !.count = @ + 1]
                 ELSE [token |-> token, count |-> 1, start |-> t]
        full  == ~hit /\ Len(rest) >= UniqueTokenPerInterval
    IN [cache    |-> Append(IF full THEN Tail(rest) ELSE rest, entry),
        rejected |-> entry.count > limit + 1,
        evicted  |-> IF full THEN Head(rest).token ELSE ""]

\* limiter.check(limit, token) at time t.  The limiter of next-rate-limit
\* keeps one use counter per token in an LRU cache of uniqueTokenPerInterval
\* entries, each of which lives for interval ms from its insertion; a token
\* without a live entry starts at one use, which can push the least recently
\* used entry out.  The result is the cache afterwards, whether the promise
\* rejects, and the token whose entry was pushed out.
LimiterCheck(cache, limit, token, t) ==
    LET k     == CacheIndex(cache, token)
        hit   == k > 0 /\ ~IsStale(cache[k], t)
        rest  == IF k > 0 THEN RemoveAt(cache, k) ELSE cache
        entry == IF hit THEN [cache[k] EXCEPT !.count = @ + 1]
                 ELSE [token |-> token, count |-> 1, start |-> t]
        full  == ~hit /\ Len(rest) >= UniqueTokenPerInterval
    IN [cache    |-> Append(IF full THEN Tail(rest) ELSE rest, entry),
        rejected |-> entry.count > limit,
        evicted  |-> IF full THEN Head(rest).token ELSE ""]

\* what middleware(request) returns
MiddlewareOutcome(path, cookie, rejected) ==
    IF StartsWith(path, PathApiWaitlist) /\ rejected THEN "429"
    ELSE IF StartsWith(path, PathApp) /\ ~cookie THEN "redirect"
    ELSE "next"

NoPass == [start |-> 0, passed |-> 0, evicted |-> FALSE]

PassedAfter(h, t) ==
    IF h.passed = 0 \/ t - h.start > Interval
    THEN [start |-> t, passed |-> 1, evicted |-> FALSE]
    ELSE [h EXCEPT !.passed = @ + 1]

\* One request at the edge.  Next.js runs middleware() only on the paths of
\* config.matcher and hands every other request to the application as it is.
\* A request for the join route that the middleware lets through reaches
\* POST, whose first step is the route's own rate-limit check.
EdgeRequest(path, reqIp, xff, realIp, cookie) ==
    LET runs   == matcher(path)
        limited == runs /\ StartsWith(path, PathApiWaitlist)
        token  == OrElse(reqIp, OrElse(xff, "anonymous"))
        chk    == LimiterCheck(tokenCache, MwLimit, token, now)
        out    == IF runs THEN MiddlewareOutcome(path, cookie, limited /\ chk.rejected)
                  ELSE "next"
        routeIp == OrElse(xff, OrElse(realIp, "anonymous"))
        entryCount == IF CacheIndex(tokenCache, token) > 0
                      THEN tokenCache[CacheIndex(tokenCache, token)].count ELSE 0
    IN
    /\ limited => entryCount < MaxUsage /\ mwPassed[token].passed < MaxPassed
    /\ tokenCache' = IF limited THEN chk.cache ELSE tokenCache
    /\ mwLast' = [path |-> path, token |-> IF limited THEN token ELSE "",
                  cookie |-> cookie, ran |-> runs, outcome |-> out,
                  retryAfter |-> IF out = "429" THEN 300 ELSE 0]
    /\ mwPassed' =
          [c \in Clients |->
              IF limited /\ c = token /\ out # "429" THEN PassedAfter(mwPassed[c], now)
              ELSE IF limited /\ c = chk.evicted THEN [mwPassed[c] EXCEPT !.evicted = TRUE]
              ELSE mwPassed[c]]
    /\ IF out = "next" /\ path = PathJoin
       THEN RouteCheck("i1", routeIp)
            /\ UNCHANGED <<memLast, memAdmitted, memDeniedUntil, memWindowAllowed, shadowStore>>
       ELSE UNCHANGED memVars

NoEdge == [path |-> <<>>, token |-> "", cookie |-> FALSE, ran |-> FALSE,
           outcome |-> "none", retryAfter |-> 0]

MwInit ==
    /\ tokenCache = <<>>
    /\ mwLast = NoEdge
    /\ mwPassed = [c \in Clients |-> NoPass]

(***************************************************************************)
(* Waitlist join handler: POST of route.ts and of its database-backed twin *)
(***************************************************************************)
RECURSIVE IndexOf(_, _)
IndexOf(s, c) ==
    IF s = <<>> THEN 0
    ELSE IF Head(s) = c THEN 1
    ELSE LET k == IndexOf(Tail(s), c) IN IF k = 0 THEN 0 ELSE k + 1

Occurrences(s, c) == Cardinality({k \in DOMAIN s : s[k] = c})
LastIndexOf(s, c) == IF Occurrences(s, c) = 0 THEN 0
                     ELSE CHOOSE k \in DOMAIN s : s[k] = c /\ \A j \in DOMAIN s : s[j] = c => j <= k
EndsWith(s, suf) == Len(s) >= Len(suf) /\ SubSeq(s, Len(s) - Len(suf) + 1, Len(s)) = suf

LowerLetters == {"a", "b", "c", "e", "g", "i", "l", "m", "o", "p", "r", "t", "n", "v"}
UpperLetters == {"A", "B"}
LowerChar(c) == CASE c = "A" -> "a" [] c = "B" -> "b" [] OTHER -> c
IsLetter(c)  == c \in LowerLetters \/ c \in UpperLetters

\* String.prototype.toLowerCase and String.prototype.trim
ToLowerCase(s) == [k \in 1..Len(s) |-> LowerChar(s[k])]
RECURSIVE TrimStart(_)
TrimStart(s) == IF s # <<>> /\ Head(s) = " " THEN TrimStart(Tail(s)) ELSE s
RECURSIVE TrimEnd(_)
TrimEnd(s) == IF s # <<>> /\ s[Len(s)] = " " THEN TrimEnd(SubSeq(s, 1, Len(s) - 1)) ELSE s
Trim(s) == TrimEnd(TrimStart(s))

\* the mutant forgets the lower-casing
NormalizeEmail_noLower(email) == Trim(email)

\* email.toLowerCase().trim()
NormalizeEmail(email) == Trim(ToLowerCase(email))

GmailCom   == <<"g", "m", "a", "i", "l", ".", "c", "o", "m">>
OutlookCom == <<"o", "u", "t", "l", "o", "o", "k", ".", "c", "o", "m">>
YahooCom   == <<"y", "a", "h", "o", "o", ".", "c", "o", "m">>
ProtonMe   == <<"p", "r", "o", "t", "o", "n", ".", "m", "e">>
ALLOWED_DOMAINS == {GmailCom, OutlookCom, YahooCom, ProtonMe}

\* z.string().email(): one "@", no blank, a local part, a dotted domain
\* that ends in a top-level label of at least two letters
IsEmailSyntax(s) ==
    /\ Occurrences(s, "@") = 1
    /\ Occurrences(s, " ") = 0
    /\ IndexOf(s, "@") > 1
    /\ LET domain == SubSeq(s, IndexOf(s, "@") + 1, Len(s))
           dot    == LastIndexOf(domain, ".")
       IN /\ dot > 1
          /\ Len(domain) - dot >= 2
          /\ \A k \in (dot + 1)..Len(domain) : IsLetter(domain[k])

\* the refine() of emailSchema
DomainAllowed(s) ==
    LET domain == SubSeq(s, IndexOf(s, "@") + 1, Len(s))
        labels == Occurrences(domain, ".") + 1
        dot    == LastIndexOf(domain, ".")
        tld    == SubSeq(domain, dot + 1, Len(domain))
    IN /\ domain # <<>>
       /\ \E allowed \in ALLOWED_DOMAINS :
             domain = allowed \/ EndsWith(domain, <<".">> \o allowed)
       /\ labels >= 2 /\ labels <= 3
       /\ Len(tld) >= 2 /\ Len(tld) <= 63
       /\ \A k \in DOMAIN tld : IsLetter(tld[k])

\* emailSchema.safeParse(body).success
SafeParse(body) == IsEmailSyntax(body) /\ DomainAllowed(body)

BodyA        == <<"a", "@", "g", "m", "a", "i", "l", ".", "c", "o", "m">>
BodyAUpper   == <<"A", "@", "g", "m", "a", "i", "l", ".", "c", "o", "m">>
BodyB        == <<"b", "@", "p", "r", "o", "t", "o", "n", ".", "m", "e">>
BodySub      == <<"a", "@", "m", ".", "g", "m", "a", "i", "l", ".", "c", "o", "m">>
BodyEvil     == <<"a", "@", "e", "v", "i", "l", ".", "c", "o", "m">>
BodyNoAt     == <<"g", "m", "a", "i", "l", ".", "c", "o", "m">>
Bodies == {BodyA, BodyAUpper, BodyB, BodySub, BodyEvil, BodyNoAt}

JoinProcs == {"r1", "r2"}

JoinIdle == [pc |-> "idle", ip |-> "none", body |-> <<>>, email |-> <<>>,
             status |-> 0, error |-> "none"]

\* the response is sent and the request's locals are gone
Respond(r, status, error) == [JoinIdle EXCEPT !.status = status, !.error = error]

\* POST of route.ts up to await request.json(): the in-memory rate limit
JoinStart(p, ip, body) ==
    /\ joinReq[p].pc = "idle"
    /\ MemRateLimitStep("i1", ip)
    /\ joinReq' = [joinReq EXCEPT ![p] =
          IF memLast'.allowed
          THEN [JoinIdle EXCEPT !.pc = "parse", !.ip = ip, !.body = body]
          ELSE Respond([JoinIdle EXCEPT !.ip = ip, !.body = body], 429, "Too many requests")]
    /\ UNCHANGED <<waitlist, emailIsUnique>>

\* POST of the database-backed twin: checkRateLimitDB is entered
JoinStartDB(p, ip, body) ==
    /\ joinReq[p].pc = "idle"
    /\ DbBegin(p, ip)
    /\ joinReq' = [joinReq EXCEPT ![p] = [JoinIdle EXCEPT !.pc = "limit", !.ip = ip, !.body = body]]
    /\ UNCHANGED <<waitlist, emailIsUnique>>

JoinLimitSelect(p) ==
    /\ joinReq[p].pc = "limit"
    /\ DbSelect(p)
    /\ UNCHANGED joinVars

\* checkRateLimitDB returns: 429, or on to await request.json()
JoinLimitDecide(p) ==
    /\ joinReq[p].pc = "limit"
    /\ DbDecide(p)
    /\ joinReq' = [joinReq EXCEPT ![p] =
          IF dbLast'.allowed THEN [joinReq[p] EXCEPT !.pc = "parse"]
          ELSE Respond(joinReq[p], 429, "Too many requests")]
    /\ UNCHANGED <<waitlist, emailIsUnique>>

\* the body has arrived: emailSchema.safeParse, then the SELECT is sent
JoinParse(p) ==
    /\ joinReq[p].pc = "parse"
    /\ LET r == joinReq[p] IN
       joinReq' = [joinReq EXCEPT ![p] =
          IF SafeParse(r.body)
          THEN [r EXCEPT !.pc = "select", !.email = r.body]
          ELSE Respond(r, 400, "validation")]
    /\ UNCHANGED <<waitlist, emailIsUnique>>

\* select().from(waitlist).where(eq(waitlist.email, normalized)).limit(1)
\* runs on the table; an existing row ends the request with 400
JoinSelect(p) ==
    /\ joinReq[p].pc = "select"
    /\ LET r == joinReq[p] IN
       joinReq' = [joinReq EXCEPT ![p] =
          IF \E k \in DOMAIN waitlist : waitlist[k] = NormalizeEmail(r.email)
          THEN Respond(r, 400, "This email is already on the waitlist")
          ELSE [r EXCEPT !.pc = "insert"]]
    /\ UNCHANGED <<waitlist, emailIsUnique>>

\* db.insert(waitlist).values({id: nanoid(), email: normalized}) runs on the
\* table; a rejected insert throws and the catch block answers 500
JoinInsert(p) ==
    /\ joinReq[p].pc = "insert"
    /\ LET email == NormalizeEmail(joinReq[p].email)
           clash == emailIsUnique /\ \E k \in DOMAIN waitlist : waitlist[k] = email
       IN /\ waitlist' = IF clash THEN waitlist ELSE Append(waitlist, email)
          /\ joinReq' = [joinReq EXCEPT ![p] =
                IF clash THEN Respond(joinReq[p], 500, "Internal server error")
                ELSE Respond(joinReq[p], 201, "none")]
    /\ UNCHANGED emailIsUnique

\* Whether waitlist.email carries a UNIQUE constraint is decided by the
\* schema of the waitlist table; both kinds of table are considered.
JoinInit ==
    /\ waitlist = <<>>
    /\ emailIsUnique \in BOOLEAN
    /\ joinReq = [p \in JoinProcs |-> JoinIdle]

(***************************************************************************)
(* Transfer Coordinator (design document, 4.5 and 5)                       *)
(***************************************************************************)
NParts   == 2                      \* part indices a session declares: 1..NParts
Sessions == {"s1", "s2"}
Declared == 1..NParts

NoSession == [state |-> "None", parts |-> {}]
NoCall    == [op |-> "none", session |-> "none", before |-> "None", result |-> "none"]

Active(st) == st \in {"Initiated", "InProgress"}

\* startUpload(source, path, totalSize) -> sessionId
StartUpload(s) ==
    /\ xfer[s].state = "None"
    /\ xfer' = [xfer EXCEPT ![s] = [state |-> "Initiated", parts |-> {}]]
    /\ xferLast' = [op |-> "startUpload", session |-> s, before |-> "None", result |-> "ok"]
    /\ UNCHANGED xferCompleted

\* uploadPart(sessionId, partIndex, bytes, checksum) -> ack; failed is a
\* permanent adapter error, which moves the session to Failed
UploadPart(s, i, failed) ==
    /\ xfer[s].state # "None"
    /\ xfer' = [xfer EXCEPT ![s] =
          IF ~Active(@.state) THEN @
          ELSE IF failed THEN [@ EXCEPT !.state = "Failed"]
          ELSE [state |-> "InProgress", parts |-> @.parts \cup {i}]]
    /\ xferLast' = [op |-> "uploadPart", session |-> s, before |-> xfer[s].state,
                    result |-> IF ~Active(xfer[s].state) THEN "Conflict"
                               ELSE IF failed THEN "Failed" ELSE "ack"]
    /\ UNCHANGED xferCompleted

\* the mutant does not look at the acknowledged parts
CompleteUpload_unchecked(s) ==
    /\ xfer[s].state # "None"
    /\ xfer' = [xfer EXCEPT ![s] =
          IF Active(@.state) THEN [@ EXCEPT !.state = "Completing"] ELSE @]
    /\ xferLast' = [op |-> "completeUpload", session |-> s, before |-> xfer[s].state,
                    result |-> IF ~Active(xfer[s].state) THEN "Conflict" ELSE "pending"]
    /\ UNCHANGED xferCompleted

\* completeUpload(sessionId): the atomic check-and-transition on the set of
\* completed parts; the call then waits for the adapter
CompleteUpload(s) ==
    /\ xfer[s].state # "None"
    /\ xfer' = [xfer EXCEPT ![s] =
          IF Active(@.state) /\ @.parts = Declared THEN [@ EXCEPT !.state = "Completing"] ELSE @]
    /\ xferLast' = [op |-> "completeUpload", session |-> s, before |-> xfer[s].state,
                    result |-> IF ~Active(xfer[s].state) THEN "Conflict"
                               ELSE IF xfer[s].parts = Declared THEN "pending"
                               ELSE "Incomplete"]
    /\ UNCHANGED xferCompleted

\* the adapter has answered the completion: the FileEntry is returned, or an
\* unrecoverable adapter error moves the session to Failed
FinishComplete(s, failed) ==
    /\ xfer[s].state = "Completing"
    /\ xfer' = [xfer EXCEPT ![s].state = IF failed THEN "Failed" ELSE "Completed"]
    /\ xferLast' = [op |-> "completeUpload", session |-> s, before |-> "Completing",
                    result |-> IF failed THEN "Failed" ELSE "ok"]
    /\ xferCompleted' = IF failed THEN xferCompleted ELSE [xferCompleted EXCEPT ![s] = @ + 1]

\* the mutant treats the abort of an aborted session as an adapter error
AbortUpload_failsOnRepeat(s) ==
    /\ xfer[s].state # "None"
    /\ xfer' = [xfer EXCEPT ![s].state =
          IF @ = "Completed" THEN @ ELSE IF @ = "Aborted" THEN "Failed" ELSE "Aborted"]
    /\ xferLast' = [op |-> "abortUpload", session |-> s, before |-> xfer[s].state,
                    result |-> IF xfer[s].state = "Completed" THEN "Conflict" ELSE "ok"]
    /\ UNCHANGED xferCompleted

\* abortUpload(sessionId): from every non-terminal state to Aborted; nothing
\* to do on an aborted session
AbortUpload(s) ==
    /\ xfer[s].state # "None"
    /\ xfer' = [xfer EXCEPT ![s].state = IF @ \in {"Completed", "Aborted"} THEN @ ELSE "Aborted"]
    /\ xferLast' = [op |-> "abortUpload", session |-> s, before |-> xfer[s].state,
                    result |-> IF xfer[s].state = "Completed" THEN "Conflict" ELSE "ok"]
    /\ UNCHANGED xferCompleted

XferInit ==
    /\ xfer = [s \in Sessions |-> NoSession]
    /\ xferLast = NoCall
    /\ xferCompleted = [s \in Sessions |-> 0]

(***************************************************************************)
(* Credential refresh (design document, 5 and 6)                           *)
(***************************************************************************)
MaxEpoch  == 2                     \* a credential expires at most this often
Sources   == {"src1", "src2"}
Resolvers == {"c1", "c2", "c3"}

ResolverIdle == [pc |-> "idle", source |-> "none"]

\* get(sourceId): a live credential is returned, an expired one is refreshed
ResolveStart(c, src) ==
    /\ resolver[c].pc = "idle"
    /\ resolver' = [resolver EXCEPT ![c] =
          IF cred[src].expired THEN [pc |-> "wait", source |-> src] ELSE ResolverIdle]
    /\ UNCHANGED <<cred, credLock, refreshCalls>>

\* the mutant refreshes whenever it gets the lock, expired or not
AcquireRefresh_noRecheck(c) ==
    LET src == resolver[c].source IN
    /\ resolver[c].pc = "wait"
    /\ credLock[src] = "none"
    /\ credLock' = [credLock EXCEPT ![src] = c]
    /\ resolver' = [resolver EXCEPT ![c].pc = "refreshing"]
    /\ refreshCalls' = [refreshCalls EXCEPT ![src] = @ + 1]
    /\ UNCHANGED cred

\* the per-source refresh lock is taken; the expiry is looked at again and
\* refresh(sourceId) is called only when the credential is still expired
AcquireRefresh(c) ==
    LET src == resolver[c].source IN
    /\ resolver[c].pc = "wait"
    /\ credLock[src] = "none"
    /\ IF cred[src].expired
       THEN /\ credLock' = [credLock EXCEPT ![src] = c]
            /\ resolver' = [resolver EXCEPT ![c].pc = "refreshing"]
            /\ refreshCalls' = [refreshCalls EXCEPT ![src] = @ + 1]
       ELSE /\ resolver' = [resolver EXCEPT ![c] = ResolverIdle]
            /\ UNCHANGED <<credLock, refreshCalls>>
    /\ UNCHANGED cred

\* refresh(sourceId) has returned: the new credential is stored, the lock freed
RefreshDone(c) ==
    LET src == resolver[c].source IN
    /\ resolver[c].pc = "refreshing"
    /\ cred' = [cred EXCEPT ![src].expired = FALSE]
    /\ credLock' = [credLock EXCEPT ![src] = "none"]
    /\ resolver' = [resolver EXCEPT ![c] = ResolverIdle]
    /\ UNCHANGED refreshCalls

\* the expiry timestamp of a live credential passes
Expire(src) ==
    /\ ~cred[src].expired
    /\ cred[src].epoch < MaxEpoch
    /\ cred' = [cred EXCEPT ![src] = [expired |-> TRUE, epoch |-> @.epoch + 1]]
    /\ UNCHANGED <<credLock, resolver, refreshCalls>>

CredInit ==
    /\ cred = [src \in Sources |-> [expired |-> TRUE, epoch |-> 1]]
    /\ credLock = [src \in Sources |-> "none"]
    /\ resolver = [c \in Resolvers |-> ResolverIdle]
    /\ refreshCalls = [src \in Sources |-> 0]

(***************************************************************************)
(* The clock                                                               *)
(***************************************************************************)
MwTickMs  == 200000    \* granularity of the clock of the middleware specification
MwMaxTime == 400000    \* the clock of the middleware specification stops here

Tick(step, max) ==
    /\ now + step <= max
    /\ now' = now + step
    /\ memAdmitted' = PruneAdmitted(now')
    /\ UNCHANGED <<rateLimitStore, memLast, memDeniedUntil, memWindowAllowed, shadowStore,
                   dbVars, mwVars, joinVars, gatewayVars>>

(***************************************************************************)
(* Specification of the in-memory limiter of one server process            *)
(***************************************************************************)
InitAll ==
    /\ now = 0
    /\ MemInit
    /\ DbInit
    /\ MwInit
    /\ JoinInit
    /\ XferInit
    /\ CredInit

\* the specifications that do not insert into the waitlist fix its schema
InitWeb == InitAll /\ emailIsUnique = TRUE

MemPost(i, ip) == MemRateLimitStep(i, ip) /\ UNCHANGED <<now, dbVars, mwVars, joinVars, gatewayVars>>
MemCleanup(i)  == Cleanup(i) /\ UNCHANGED <<now, dbVars, mwVars, joinVars, gatewayVars>>
MemTick        == Tick(TickMs, MemMaxTime)

NextMem ==
    \/ \E ip \in IPs : MemPost("i1", ip)
    \/ MemCleanup("i1")
    \/ MemTick

SpecMem == InitWeb /\ [][NextMem]_vars

(***************************************************************************)
(* Specification of the database-backed limiter, called concurrently       *)
(***************************************************************************)
DbCallBegin(p, ip) == DbBegin(p, ip) /\ UNCHANGED <<now, memVars, mwVars, joinVars, gatewayVars>>
DbCallSelect(p)    == DbSelect(p) /\ UNCHANGED <<now, memVars, mwVars, joinVars, gatewayVars>>
DbCallDecide(p)    == DbDecide(p) /\ UNCHANGED <<now, memVars, mwVars, joinVars, gatewayVars>>
DbTick             == Tick(DbTickMs, DbMaxTime)

NextDB ==
    \/ \E p \in DbProcs, ip \in IPs : DbCallBegin(p, ip)
    \/ \E p \in DbProcs : DbCallSelect(p)
    \/ \E p \in DbProcs : DbCallDecide(p)
    \/ DbTick

SpecDB == InitWeb /\ [][NextDB]_vars

(***************************************************************************)
(* Specification of both limiters on two server instances that restart     *)
(***************************************************************************)
MaxAdmitted == 4   \* requests of one ip admitted within windowMs, over all restarts

MemPostBounded(i, ip) == Len(memAdmitted[ip]) < MaxAdmitted /\ MemPost(i, ip)
RestartInstance(i) == Restart(i) /\ UNCHANGED <<now, mwVars, joinVars, gatewayVars>>
RestartTick        == Tick(TickMs, RestartMaxTime)

NextRestart ==
    \/ \E i \in Instances : MemPostBounded(i, "ip1")
    \/ DbCallBegin("r1", "ip1")
    \/ DbCallSelect("r1")
    \/ DbCallDecide("r1")
    \/ \E i \in Instances : RestartInstance(i)
    \/ RestartTick

SpecRestart == InitWeb /\ [][NextRestart]_vars

(***************************************************************************)
(* Specification of both limiters across the expiry of their windows       *)
(***************************************************************************)
ExpiryTick == Tick(ExpiryTickMs, ExpiryMaxTime)

NextExpiry ==
    \/ MemPost("i1", "ip1")
    \/ MemCleanup("i1")
    \/ DbCallBegin("r1", "ip1")
    \/ DbCallSelect("r1")
    \/ DbCallDecide("r1")
    \/ ExpiryTick

SpecExpiry == InitWeb /\ [][NextExpiry]_vars

(***************************************************************************)
(* Specification of the edge middleware in front of the join route         *)
(***************************************************************************)
Edge(path, reqIp, xff, realIp, cookie) ==
    EdgeRequest(path, reqIp, xff, realIp, cookie) /\ UNCHANGED <<now, dbVars, joinVars, gatewayVars>>
MwTick == Tick(MwTickMs, MwMaxTime)

NextMw ==
    \/ \E path \in {PathJoin, PathApiWaitlist}, reqIp \in {"", "ip1"} :
          Edge(path, reqIp, "", "", FALSE)
    \/ MwTick

SpecMw == InitWeb /\ [][NextMw]_vars

(***************************************************************************)
(* Specification of the session gate: every path, with and without cookie  *)
(***************************************************************************)
NextGate ==
    \/ \E path \in Paths, realIp \in {"", "ip2"}, cookie \in BOOLEAN :
          Edge(path, "", "ip1", realIp, cookie)
    \/ MwTick

SpecGate == InitWeb /\ [][NextGate]_vars

(***************************************************************************)
(* Specification of concurrent requests to the join route                  *)
(***************************************************************************)
JoinBodies == {BodyA, BodyAUpper, BodyEvil}

PostStart(p, body)    == JoinStart(p, "ip1", body) /\ UNCHANGED <<now, dbVars, mwVars, gatewayVars>>
PostStartDB(p, body)  == JoinStartDB(p, "ip2", body)
                            /\ UNCHANGED <<now, memVars, mwVars, gatewayVars>>
PostLimitSelect(p)    == JoinLimitSelect(p) /\ UNCHANGED <<now, memVars, mwVars, gatewayVars>>
PostLimitDecide(p)    == JoinLimitDecide(p) /\ UNCHANGED <<now, memVars, mwVars, gatewayVars>>
PostParse(p)          == JoinParse(p) /\ UNCHANGED <<now, memVars, dbVars, mwVars, gatewayVars>>
PostSelect(p)         == JoinSelect(p) /\ UNCHANGED <<now, memVars, dbVars, mwVars, gatewayVars>>
PostInsert(p)         == JoinInsert(p) /\ UNCHANGED <<now, memVars, dbVars, mwVars, gatewayVars>>

NextJoin ==
    \/ \E p \in JoinProcs, body \in JoinBodies : PostStart(p, body)
    \/ \E p \in JoinProcs, body \in JoinBodies : PostStartDB(p, body)
    \/ \E p \in JoinProcs : PostLimitSelect(p)
    \/ \E p \in JoinProcs : PostLimitDecide(p)
    \/ \E p \in JoinProcs : PostParse(p)
    \/ \E p \in JoinProcs : PostSelect(p)
    \/ \E p \in JoinProcs : PostInsert(p)

SpecJoin == InitAll /\ [][NextJoin]_vars

(***************************************************************************)
(* Specification of the Transfer Coordinator                               *)
(***************************************************************************)
XferStart(s)            == StartUpload(s) /\ UNCHANGED <<webVars, credVars>>
XferPart(s, i, failed)  == UploadPart(s, i, failed) /\ UNCHANGED <<webVars, credVars>>
XferComplete(s)         == CompleteUpload(s) /\ UNCHANGED <<webVars, credVars>>
XferFinish(s, failed)   == FinishComplete(s, failed) /\ UNCHANGED <<webVars, credVars>>
XferAbort(s)            == AbortUpload(s) /\ UNCHANGED <<webVars, credVars>>

NextTransfer ==
    \/ \E s \in Sessions : XferStart(s)
    \/ \E s \in Sessions, i \in Declared, failed \in BOOLEAN : XferPart(s, i, failed)
    \/ \E s \in Sessions : XferComplete(s)
    \/ \E s \in Sessions, failed \in BOOLEAN : XferFinish(s, failed)
    \/ \E s \in Sessions : XferAbort(s)

SpecTransfer == InitWeb /\ [][NextTransfer]_vars

(***************************************************************************)
(* Specification of concurrent credential resolution                       *)
(***************************************************************************)
CredResolve(c, src) == ResolveStart(c, src) /\ UNCHANGED <<webVars, xferVars>>
CredAcquire(c)      == AcquireRefresh(c) /\ UNCHANGED <<webVars, xferVars>>
CredRefreshed(c)    == RefreshDone(c) /\ UNCHANGED <<webVars, xferVars>>
CredExpire(src)     == Expire(src) /\ UNCHANGED <<webVars, xferVars>>

NextCred ==
    \/ \E c \in Resolvers, src \in Sources : CredResolve(c, src)
    \/ \E c \in Resolvers : CredAcquire(c)
    \/ \E c \in Resolvers : CredRefreshed(c)
    \/ \E src \in Sources : CredExpire(src)

SpecCred == InitWeb /\ [][NextCred]_vars

(***************************************************************************)
(* Properties                                                              *)
(***************************************************************************)

\* C1: for every identifier, at most limit (3) checkRateLimitDB calls return
\* allowed between the creation of a window row and its expires_at, however
\* the calls of the server instances interleave.
C1_AtMostLimitPerWindow == \A ip \in IPs : dbAdmitted[ip] <= DbLimit

\* C2, as stated: in every interval of 60000 ms at most 3 requests of one ip
\* pass the route's check.  memAdmitted holds the requests admitted in
\* [now - 60000, now].
C2_AtMostLimitPerInterval == \A ip \in IPs : Len(memAdmitted[ip]) <= MemLimit

\* C2, amended: within one server process at most 3 requests of one ip pass
\* between the opening of a window and its resetTime, a request denied in a
\* window is answered 429 after exactly 3 were admitted in it, and an
\* interval of 60000 ms, which can overlap two windows, admits at most 6.
C2_AtMostLimitPerWindow ==
    /\ \A ip \in IPs :
          /\ Len(memAdmitted[ip]) <= 2 * MemLimit
          /\ (ip \in DOMAIN rateLimitStore["i1"] /\ now <= rateLimitStore["i1"][ip].resetTime)
                => CountGE(memAdmitted[ip], rateLimitStore["i1"][ip].resetTime - MemWindowMs)
                     <= MemLimit
    /\ (memLast.inst = "i1" /\ now <= memLast.resetTime)
          => /\ memLast.allowed <=> memLast.status # 429
             /\ ~memLast.allowed =>
                   CountGE(memAdmitted[memLast.ip], memLast.resetTime - MemWindowMs) = MemLimit

\* a fourth request inside a window has been answered 429
C2_Witness ==
    /\ memLast.status = 429
    /\ now <= memLast.resetTime
    /\ Len(memAdmitted[memLast.ip]) = MemLimit

\* C3: a request whose pathname starts with "/app" and that carries no
\* session cookie is never passed on to the application: it is redirected.
C3_SessionGate ==
    (StartsWith(mwLast.path, PathApp) /\ ~mwLast.cookie) => mwLast.outcome = "redirect"

\* C4: a restart empties the instance's rateLimitStore, so that every ip, also
\* one denied in its current window, is allowed by that instance again, while
\* the answer of the database-backed limiter, a function of the row and the
\* clock, is what it was before the restart.
C4_RestartForgets ==
    [][\A i \in Instances :
          RestartInstance(i) =>
             \A ip \in IPs :
                /\ checkRateLimit(rateLimitStore'[i], ip, MemLimit, MemWindowMs, now').result.allowed
                /\ DbDecision(rateLimitAttempts', ip, now') = DbDecision(rateLimitAttempts, ip, now)]_vars

\* an ip denied in its window was admitted again before that window's
\* resetTime, which makes more than limit admissions within the window
C4_Witness ==
    /\ memLast.allowed
    /\ memLast.ip \in IPs
    /\ now <= memDeniedUntil[memLast.ip]
    /\ CountGE(memAdmitted[memLast.ip], memDeniedUntil[memLast.ip] - MemWindowMs) > MemLimit

C5_DuplicateRejected ==
    [][\A p \in JoinProcs :
          (/\ PostSelect(p)
           /\ \E k \in DOMAIN waitlist : waitlist[k] = Trim(ToLowerCase(joinReq[p].email)))
          => /\ joinReq'[p].pc = "idle"
             /\ joinReq'[p].status = 400
             /\ joinReq'[p].error = "This email is already on the waitlist"
             /\ waitlist' = waitlist]_vars

\* a request has been turned away as a duplicate of a stored row
C5_Witness ==
    \E p \in JoinProcs :
       /\ joinReq[p].status = 400
       /\ joinReq[p].error = "This email is already on the waitlist"
       /\ Len(waitlist) >= 1

\* C7: completeUpload fails and changes nothing while a declared part index
\* is unacknowledged; with all indices acknowledged it moves the session to
\* Completing, from where it succeeds at most once, exactly once for a
\* Completed session; on a Completed session it fails with Conflict.
C7_CompleteOnlyWhenAllParts ==
    /\ [](\A s \in Sessions :
            /\ xferCompleted[s] <= 1
            /\ (xfer[s].state = "Completed") <=> (xferCompleted[s] = 1)
            /\ xfer[s].state \in {"Completing", "Completed"} => xfer[s].parts = Declared)
    /\ [][\A s \in Sessions :
            /\ XferComplete(s) =>
                  /\ (Active(xfer[s].state) /\ xfer[s].parts # Declared)
                        => xferLast'.result = "Incomplete" /\ xfer' = xfer
                  /\ (Active(xfer[s].state) /\ xfer[s].parts = Declared)
                        => xfer'[s].state = "Completing"
                  /\ xfer[s].state = "Completed"
                        => xferLast'.result = "Conflict" /\ xfer' = xfer
            /\ xfer'[s].state = "Completed" =>
                  xfer[s].state \in {"Completing", "Completed"}]_vars

\* completeUpload was called again on a session that had been completed
C7_Witness ==
    /\ xferLast.op = "completeUpload"
    /\ xferLast.before = "Completed"
    /\ xferLast.result = "Conflict"
    /\ xferCompleted[xferLast.session] = 1

\* C8: abortUpload on a session that is Aborted leaves the session as it is:
\* still Aborted, with the same set of completed parts.
C8_AbortIdempotent ==
    [][\A s \in Sessions :
          (XferAbort(s) /\ xfer[s].state = "Aborted") => xfer'[s] = xfer[s]]_vars

\* abortUpload was called on a session with parts that was already Aborted
C8_Witness ==
    /\ xferLast.op = "abortUpload"
    /\ xferLast.before = "Aborted"
    /\ xfer[xferLast.session].state = "Aborted"
    /\ xfer[xferLast.session].parts # {}

\* C9: at most one refresh per StorageSource is in flight, and the resolvers
\* of one expired credential make exactly one refresh call between them: one
\* call per expiry once the credential is live again, never more.
C9_OneRefreshPerExpiry ==
    \A src \in Sources :
       /\ Cardinality({c \in Resolvers : resolver[c].pc = "refreshing"
                                          /\ resolver[c].source = src}) <= 1
       /\ refreshCalls[src] <= cred[src].epoch
       /\ ~cred[src].expired => refreshCalls[src] = cred[src].epoch

\* all resolvers have met on one expired credential: one of them refreshes
\* it, with the one call made so far, and the others wait for the lock
C9_Witness ==
    \E src \in Sources :
       /\ cred[src].expired
       /\ refreshCalls[src] = 1
       /\ \E c \in Resolvers :
             /\ resolver[c] = [pc |-> "refreshing", source |-> src]
             /\ \A d \in Resolvers \ {c} : resolver[d] = [pc |-> "wait", source |-> src]

\* C10: the waitlist never holds two rows with the same lower-cased, trimmed
\* email, however the join requests interleave.
C10_NoDuplicateEmails ==
    \A j, k \in DOMAIN waitlist :
       j # k => Trim(ToLowerCase(waitlist[j])) # Trim(ToLowerCase(waitlist[k]))

\* the part of C11 that every state satisfies: a record's count lies in
\* 1..limit and equals the number of calls allowed since its window was opened
C11Records ==
    \A ip \in DOMAIN rateLimitStore["i1"] :
       /\ 1 <= rateLimitStore["i1"][ip].count
       /\ rateLimitStore["i1"][ip].count <= MemLimit
       /\ rateLimitStore["i1"][ip].count = memWindowAllowed["i1"][ip]

\* the part of C11 that every call satisfies: an allowed result has
\* remaining = limit - count, within 0..limit-1, for the count the call
\* leaves in the record, and a call inside an open window is denied exactly
\* when the count it finds equals limit
C11Call(ip) ==
    /\ memLast'.allowed =>
          /\ ip \in DOMAIN rateLimitStore'["i1"]
          /\ memLast'.remaining = MemLimit - rateLimitStore'["i1"][ip].count
          /\ 0 <= memLast'.remaining
          /\ memLast'.remaining <= MemLimit - 1
    /\ (ip \in DOMAIN rateLimitStore["i1"] /\ now <= rateLimitStore["i1"][ip].resetTime) =>
          (~memLast'.allowed <=> rateLimitStore["i1"][ip].count = MemLimit)

\* C11: under a clock that never goes back, whatever the calls of
\* checkRateLimit (and the cleanup ticks between them), every record of
\* rateLimitStore has 1 <= count <= limit, count is the number of calls of the
\* ip allowed since the record's window was opened, every allowed result has
\* remaining = limit - count with 0 <= remaining <= limit - 1, and a call
\* inside an open window is denied exactly when count already equals limit.
C11_CountInvariants ==
    /\ []C11Records
    /\ [][\A ip \in IPs : MemPost("i1", ip) => C11Call(ip)]_vars

\* in a window opened after the first one had expired, three calls of an ip
\* were allowed (remaining 2, 1, 0) and the fourth has just been denied
C11_Witness ==
    \E ip \in DOMAIN rateLimitStore["i1"] :
       /\ memLast.ip = ip
       /\ ~memLast.allowed
       /\ rateLimitStore["i1"][ip].count = MemLimit
       /\ memWindowAllowed["i1"][ip] = MemLimit
       /\ rateLimitStore["i1"][ip].resetTime > 2 * MemWindowMs

\* a call of checkRateLimit across the expiry: later than resetTime, or with
\* no record, it is allowed and leaves count = 1, resetTime = now + windowMs;
\* at resetTime itself it is judged on the old record; and the first call
\* after a denial's resetTime is allowed
C12Mem(ip) ==
    LET store == rateLimitStore["i1"] IN
    /\ (ip \notin DOMAIN store \/ now > store[ip].resetTime) =>
          /\ memLast'.allowed
          /\ memLast'.resetTime = now + MemWindowMs
          /\ rateLimitStore'["i1"][ip] = [count |-> 1, resetTime |-> now + MemWindowMs]
    /\ (ip \in DOMAIN store /\ now = store[ip].resetTime) =>
          /\ memLast'.allowed <=> store[ip].count < MemLimit
          /\ memLast'.resetTime = store[ip].resetTime
          /\ rateLimitStore'["i1"][ip].resetTime = store[ip].resetTime
    /\ (memLast.ip = ip /\ memLast.status = 429 /\ now > memLast.resetTime) =>
          memLast'.allowed

\* the same for a call of checkRateLimitDB, stated on the row the call has
\* selected and on the clock value the call took when it was entered
C12Db(p) ==
    LET r == dbReq[p] IN
    /\ (~r.found \/ r.now > r.expiresAt) =>
          /\ dbLast'.allowed
          /\ dbLast'.resetTime = r.now + DbWindowMs
          /\ rateLimitAttempts'[r.ip] = [count |-> 1, expiresAt |-> r.now + DbWindowMs]
    /\ (r.found /\ r.now = r.expiresAt) =>
          /\ dbLast'.allowed <=> r.count < DbLimit
          /\ dbLast'.resetTime = r.expiresAt
          /\ rateLimitAttempts'[r.ip].expiresAt = rateLimitAttempts[r.ip].expiresAt
    /\ (DeniedInWindow(dbLast, r) /\ r.now > r.expiresAt) => dbLast'.allowed

\* C12: in both limiters a call made strictly later than the stored
\* resetTime / expiresAt, or finding no record, is always allowed and replaces
\* the record by count = 1 and expiry = now + windowMs; a call made exactly at
\* the expiry is still judged against the old window; so an identifier that
\* was denied is allowed again on its first call after the expiry.  For the
\* database limiter "stored" is the row the call selects and "now" the clock
\* value it took on entry.
C12_ExpiryResets ==
    /\ [][MemPost("i1", "ip1") => C12Mem("ip1")]_vars
    /\ [][\A p \in DbProcs : DbCallDecide(p) => C12Db(p)]_vars

\* both limiters have denied the ip in one window and, after its expiry,
\* allowed it again in a new one
C12_Witness ==
    /\ memDeniedUntil["ip1"] > 0
    /\ "ip1" \in DOMAIN rateLimitStore["i1"]
    /\ rateLimitStore["i1"]["ip1"].resetTime > memDeniedUntil["ip1"]
    /\ dbLast.reopened
    /\ dbLast.allowed
    /\ dbLast.resetTime > DbWindowMs

\* the Map with the timer agrees with the Map without it on every record it
\* holds, and what it lacks is expired
C13Relation ==
    LET store == rateLimitStore["i1"]
        never == shadowStore["i1"]
    IN  /\ DOMAIN store \subseteq DOMAIN never
        /\ \A ip \in DOMAIN store : store[ip] = never[ip]
        /\ \A ip \in DOMAIN never \ DOMAIN store : now > never[ip].resetTime

\* a call answers as the same call on the Map that was never cleaned
C13Call(ip) ==
    LET r == checkRateLimit(shadowStore["i1"], ip, MemLimit, MemWindowMs, now).result IN
    /\ memLast'.allowed = r.allowed
    /\ memLast'.remaining = r.remaining
    /\ memLast'.resetTime = r.resetTime

\* a tick deletes the records with now > resetTime and no other, and leaves
\* the records it keeps as they were
C13Tick ==
    LET store == rateLimitStore["i1"]
        after == rateLimitStore'["i1"]
    IN  /\ DOMAIN after = {ip \in DOMAIN store : ~(now > store[ip].resetTime)}
        /\ \A ip \in DOMAIN after : after[ip] = store[ip]
        /\ \A ip \in DOMAIN after : now <= after[ip].resetTime

\* C13: the cleanup timer is transparent.  A tick deletes only records with
\* now > resetTime and leaves no expired record behind, and however the ticks
\* interleave with the calls of checkRateLimit, every call returns the
\* (allowed, remaining, resetTime) that the same sequence of calls returns
\* when the timer never runs.
C13_CleanupTransparent ==
    /\ []C13Relation
    /\ [][\A ip \in IPs : MemPost("i1", ip) => C13Call(ip)]_vars
    /\ [][MemCleanup("i1") => C13Tick]_vars

\* a tick has deleted the expired record of an ip that had used up its
\* window, the Map that is never cleaned still holds it, and the call made
\* last, a denial of another ip, was answered from a record both Maps hold
C13_Witness ==
    \E ip \in DOMAIN shadowStore["i1"] \ DOMAIN rateLimitStore["i1"] :
       /\ shadowStore["i1"][ip].count = MemLimit
       /\ memLast.ip # ip
       /\ memLast.ip \in DOMAIN rateLimitStore["i1"]
       /\ memLast.status = 429
       /\ memLast.resetTime = rateLimitStore["i1"][memLast.ip].resetTime
       /\ memLast.resetTime > shadowStore["i1"][ip].resetTime
====
